---- MODULE Spec2Model ----
(***************************************************************************)
(* Model of the "States" Homebridge accessory (src/src/accessory.ts).      *)
(*                                                                         *)
(* One accessory instance at a time runs against a persisted store that    *)
(* outlives it.  The store holds one entry under key = name.  The model    *)
(* follows the event loop: every await of the source is a point where      *)
(* other callbacks may run, so each asynchronous storage call is split     *)
(* into the step that takes effect on the store and the step that resumes  *)
(* the awaiting code.                                                      *)
(*                                                                         *)
(* JavaScript arrays are 0-based: stateServices[i] of the source is        *)
(* stateServices[i + 1] here; the pulse counters are indexed 0 .. N-1.     *)
(***************************************************************************)
EXTENDS Integers, Sequences, FiniteSets, TLC

\* ---------------------------------------------------------------- bounds
\* longest states list a configuration may carry
MaxStates == 2
\* set-events one instance receives
MaxEvents == 2
\* set handlers suspended on their storage write at the same time
MaxInflight == 2
\* restarts of the accessory against the same store
MaxRestarts == 1

\* ------------------------------------------------------------ JS values
\* what storage.getItem resolves to: undefined or a number
Undefined == [def |-> FALSE, v |-> 0]
Num(n) == [def |-> TRUE, v |-> n]

\* the entry of the store under key = name
Absent == [kind |-> "absent", v |-> 0]
Corrupt == [kind |-> "corrupt", v |-> 0]
Stored(n) == [kind |-> "int", v |-> n]

\* ------------------------------------------------------- configuration
\* config.states: the first n of a fixed supply of display names
StateNames == <<"Home", "Away", "Night", "Guest", "Party", "Sleep">>

Configs == {SubSeq(StateNames, 1, n) : n \in 1..MaxStates}

\* this.name = config.name; the key of the persisted entry
name == "Alarm"

\* -------------------------------------------------------- construction
\* new hap.Service.StatefulProgrammableSwitch(this.name, 'state')
service == [type |-> "StatefulProgrammableSwitch", name |-> name, label |-> 0]

\* new hap.Service.AccessoryInformation() with its three characteristics
informationService == [type |-> "AccessoryInformation", name |-> "States", label |-> 0]

\* the body of the constructor's loop: the trigger service of one state,
\* whose ServiceLabelIndex is the running counter i
NewStateService(state, i) ==
    [type |-> "StatelessProgrammableSwitch", name |-> state, label |-> i]

\* let i = 1; for (const state of config.states) { ... push(s) }
RECURSIVE BuildStateServices(_, _)
BuildStateServices(states, i) ==
    IF states = <<>> THEN <<>>
    ELSE <<NewStateService(Head(states), i)>> \o BuildStateServices(Tail(states), i + 1)

VARIABLES
    config,         \* config.states of the running instance
    stateServices,  \* this.stateServices
    store,          \* the persisted entry under key = name
    value,          \* the selector characteristic's value
    pc,             \* position of init(): dirfail, reading, loaded, ready, readfail
    loaded,         \* what storage.getItem resolved to
    storageInit,    \* the promise of storage.init: none, pending, rejected
    unhandled,      \* a promise rejected with nobody handling it
    logged,         \* log.error was called by the constructor's catch
    inflight,       \* set handlers suspended in await storage.setItem
    nrecv,          \* number of set-events this instance received
    lastRecv,       \* value of the set-event received last
    raced,          \* a set-event was received before the restore completed
    pulses,         \* pulses[k]: setValue(0) calls on trigger k's event characteristic
    done,           \* done[k]: set handlers with value k that returned normally
    failed,         \* failed[k]: set-events with value k whose storage write failed
    rejected,       \* set handlers that rejected towards the host
    exported,       \* the result of the last getServices call, <<>> before
    lastDone,       \* value of the last set-event, once it completed undisturbed
    expect,         \* lastDone as it stood when the instance was constructed
    restarts

vars == <<config, stateServices, store, value, pc, loaded, storageInit, unhandled,
          logged, inflight, nrecv, lastRecv, raced, pulses, done, failed, rejected, exported,
          lastDone, expect, restarts>>

N == Len(config)

Zeros(cfg) == [k \in 0..(Len(cfg) - 1) |-> 0]

\* ------------------------------------------------------------- storage
\* storage.getItem(this.name) on a store initialised with
\* forgiveParseErrors: true: an absent or malformed entry yields undefined
GetItem(s) == IF s.kind = "int" THEN Num(s.v) ELSE Undefined

\* variant: x || 1, the default taken from the 1-based label index
OrOne(x) == IF x.def /\ x.v # 0 THEN x.v ELSE 1

\* x || 0: undefined and 0 are falsy
OrZero(x) == IF x.def /\ x.v # 0 THEN x.v ELSE 0

\* variant: the handler persists the trigger's 1-based label index
SetItemLabel(v) == Stored(v + 1)

\* what storage.setItem(this.name, value) leaves in the store
SetItem(v) == Stored(v)

\* --------------------------------------------------------- constructor
\* The constructor builds the services and calls init(), which runs up to
\* its first await inside the constructor: persistPath(), storage.init
\* (not awaited), setProps, onSet and the call of getItem.  dirOk = FALSE
\* is persistPath() throwing: init() rejects before storage.init and onSet,
\* and the constructor's catch logs it.
Construct(cfg, dirOk) ==
    /\ config' = cfg
    /\ stateServices' = BuildStateServices(cfg, 1)
    /\ value' = 0
    /\ pc' = IF dirOk THEN "reading" ELSE "dirfail"
    /\ storageInit' = IF dirOk THEN "pending" ELSE "none"
    /\ logged' = ~dirOk
    /\ loaded' = Undefined
    /\ unhandled' = FALSE
    /\ inflight' = {}
    /\ nrecv' = 0
    /\ lastRecv' = 0
    /\ raced' = FALSE
    /\ pulses' = Zeros(cfg)
    /\ done' = Zeros(cfg)
    /\ failed' = Zeros(cfg)
    /\ rejected' = 0
    /\ exported' = <<>>

Init ==
    /\ store \in {Absent, Corrupt}
    /\ \E cfg \in Configs, dirOk \in BOOLEAN :
        /\ config = cfg
        /\ stateServices = BuildStateServices(cfg, 1)
        /\ pc = IF dirOk THEN "reading" ELSE "dirfail"
        /\ storageInit = IF dirOk THEN "pending" ELSE "none"
        /\ logged = ~dirOk
        /\ pulses = Zeros(cfg)
        /\ done = Zeros(cfg)
        /\ failed = Zeros(cfg)
    /\ value = 0
    /\ loaded = Undefined
    /\ unhandled = FALSE
    /\ inflight = {}
    /\ nrecv = 0
    /\ lastRecv = 0
    /\ raced = FALSE
    /\ rejected = 0
    /\ exported = <<>>
    /\ lastDone = Undefined
    /\ expect = Undefined
    /\ restarts = 0

\* ----------------------------------------------------- startup restore
\* The promise storage.init returned is dropped by init(): when it
\* resolves, nothing of the accessory runs and no step is taken.  When it
\* rejects (the directory cannot be created), no handler is attached to it.
StorageInitFail ==
    /\ storageInit = "pending"
    /\ storageInit' = "rejected"
    /\ unhandled' = TRUE
    /\ UNCHANGED <<config, stateServices, store, value, pc, loaded, logged,
                   inflight, nrecv, lastRecv, raced, pulses, done, failed, rejected, exported,
                   lastDone, expect, restarts>>

\* the storage engine reads the entry for getItem
ReadItem ==
    /\ pc = "reading"
    /\ loaded' = GetItem(store)
    /\ pc' = "loaded"
    /\ UNCHANGED <<config, stateServices, store, value, storageInit, unhandled, logged,
                   inflight, nrecv, lastRecv, raced, pulses, done, failed, rejected, exported,
                   lastDone, expect, restarts>>

\* getItem rejects: init() rejects at its await, the constructor's
\* .catch(log.error) logs it, the assignment to .value never happens
ReadFail ==
    /\ pc = "reading"
    /\ pc' = "readfail"
    /\ logged' = TRUE
    /\ UNCHANGED <<config, stateServices, store, value, loaded, storageInit, unhandled,
                   inflight, nrecv, lastRecv, raced, pulses, done, failed, rejected, exported,
                   lastDone, expect, restarts>>

\* variant: the restore goes through the set-event path and pulses the
\* trigger of the restored value
RestoreDoneViaSet ==
    /\ pc = "loaded"
    /\ value' = OrZero(loaded)
    /\ pc' = "ready"
    /\ pulses' = IF OrZero(loaded) \in DOMAIN pulses
                 THEN [pulses EXCEPT ![OrZero(loaded)] = @ + 1] ELSE pulses
    /\ UNCHANGED <<config, stateServices, store, loaded, storageInit, unhandled, logged,
                   inflight, nrecv, lastRecv, raced, done, failed, rejected, exported,
                   lastDone, expect, restarts>>

\* init() resumes after its await:  <characteristic>.value = loaded || 0.
\* A plain property assignment: no set handler, no event.
RestoreDone ==
    /\ pc = "loaded"
    /\ value' = OrZero(loaded)
    /\ pc' = "ready"
    /\ UNCHANGED <<config, stateServices, store, loaded, storageInit, unhandled, logged,
                   inflight, nrecv, lastRecv, raced, pulses, done, failed, rejected, exported,
                   lastDone, expect, restarts>>

\* ---------------------------------------------------------- set-events
\* The host calls the onSet handler with a value inside the props' range
\* [0, N-1]; the handler calls storage.setItem and suspends.  The handler
\* is registered as soon as the constructor returns, unless persistPath()
\* threw.  Nothing serialises handlers: a second set-event may arrive while
\* the first is suspended.
SetRecv(i) ==
    /\ pc # "dirfail"
    /\ nrecv < MaxEvents
    /\ Cardinality(inflight) < MaxInflight
    /\ inflight' = {[h EXCEPT !.solo = FALSE] : h \in inflight}
                     \cup {[id |-> nrecv + 1, val |-> i, phase |-> "writing",
                            solo |-> inflight = {}]}
    /\ nrecv' = nrecv + 1
    /\ lastRecv' = i
    /\ raced' = (raced \/ pc \in {"reading", "loaded"})
    /\ lastDone' = Undefined
    /\ UNCHANGED <<config, stateServices, store, value, pc, loaded, storageInit, unhandled,
                   logged, pulses, done, failed, rejected, exported, expect, restarts>>

\* the storage engine writes the entry for one pending setItem; pending
\* writes are independent calls and take effect in any order
WriteItem(h) ==
    /\ h.phase = "writing"
    /\ store' = SetItem(h.val)
    /\ inflight' = (inflight \ {h}) \cup {[h EXCEPT !.phase = "written"]}
    /\ UNCHANGED <<config, stateServices, value, pc, loaded, storageInit, unhandled, logged,
                   nrecv, lastRecv, raced, pulses, done, failed, rejected, exported, lastDone,
                   expect, restarts>>

\* setItem rejects: the handler has no try/catch, so it rejects towards the
\* host at its await and line 88 is never reached
WriteFail(h) ==
    /\ h.phase = "writing"
    /\ inflight' = inflight \ {h}
    /\ failed' = [failed EXCEPT ![h.val] = @ + 1]
    /\ rejected' = rejected + 1
    /\ UNCHANGED <<config, stateServices, store, value, pc, loaded, storageInit, unhandled,
                   logged, nrecv, lastRecv, raced, pulses, done, exported, lastDone, expect, restarts>>

\* variant: the handler takes i for a 1-based label index
PulseIndexLabel(i) == (i + N - 1) % N

\* the trigger the handler pulses: this.stateServices[i]
PulseIndex(i) == i

\* the handler resumes after its await, pulses trigger i and returns; the
\* host then stores i as the selector's value
SetDone(h) ==
    /\ h.phase = "written"
    /\ inflight' = inflight \ {h}
    /\ pulses' = [pulses EXCEPT ![PulseIndex(h.val)] = @ + 1]
    /\ done' = [done EXCEPT ![h.val] = @ + 1]
    /\ value' = h.val
    /\ lastDone' = IF h.solo THEN Num(h.val) ELSE Undefined
    /\ UNCHANGED <<config, stateServices, store, pc, loaded, storageInit, unhandled, logged,
                   nrecv, lastRecv, raced, failed, rejected, exported, expect, restarts>>

\* ------------------------------------------------------ service export
\* variant: the selector service listed before the information service
ServiceListSwapped == <<service, informationService>> \o stateServices

\* [informationService, service].concat(stateServices.map(s => s))
ServiceList == <<informationService, service>> \o stateServices

GetServices ==
    /\ exported' = ServiceList
    /\ UNCHANGED <<config, stateServices, store, value, pc, loaded, storageInit, unhandled,
                   logged, inflight, nrecv, lastRecv, raced, pulses, done, failed, rejected,
                   lastDone, expect, restarts>>

\* -------------------------------------------------------------- restart
\* The process ends and the host constructs the accessory again, with the
\* same name against the same store; the states list may differ.  Handlers
\* still suspended are lost with the process.
Restart(cfg, dirOk) ==
    /\ restarts < MaxRestarts
    /\ restarts' = restarts + 1
    /\ Construct(cfg, dirOk)
    /\ lastDone' = IF inflight = {} THEN lastDone ELSE Undefined
    /\ expect' = IF inflight = {} THEN lastDone ELSE Undefined
    /\ UNCHANGED store

Next ==
    \/ StorageInitFail
    \/ ReadItem
    \/ ReadFail
    \/ RestoreDone
    \/ \E i \in 0..(N - 1) : SetRecv(i)
    \/ \E h \in inflight : WriteItem(h)
    \/ \E h \in inflight : WriteFail(h)
    \/ \E h \in inflight : SetDone(h)
    \/ GetServices
    \/ \E cfg \in Configs, dirOk \in BOOLEAN : Restart(cfg, dirOk)

Spec == Init /\ [][Next]_vars

TypeOK ==
    /\ config \in Configs
    /\ store \in {Absent, Corrupt} \cup {Stored(n) : n \in 0..(MaxStates - 1)}
    /\ value \in 0..(MaxStates - 1)
    /\ pc \in {"dirfail", "reading", "loaded", "ready", "readfail"}
    /\ Cardinality(inflight) <= MaxInflight

\* ================================================================ claims

\* C1: in every state the number of pulses on trigger k equals the number
\* of set handlers with value k that ran to completion; so each completed
\* set-event with value i pulsed trigger i exactly once and no other.
C1_PulsePerSet == \A k \in 0..(N - 1) : pulses[k] = done[k]

C1_Witness ==
    \E j, k \in 0..(N - 1) :
        /\ j # k
        /\ done[j] = 1 /\ pulses[j] = 1
        /\ done[k] = 1 /\ pulses[k] = 1

\* C2: when the last set-event before a restart had value i, ran with no
\* other handler in flight and completed, and the new instance has received
\* no set-event, then once its restore has completed the selector is i.
C2_RoundTrip == (pc = "ready" /\ nrecv = 0 /\ expect.def) => value = expect.v

C2_Witness ==
    /\ restarts >= 1
    /\ pc = "ready" /\ nrecv = 0
    /\ expect.def /\ expect.v # 0
    /\ value = expect.v

\* C3: once every set-event this instance received has completed, none of
\* them having failed, the persisted value is the one of the set-event
\* received last.
C3_WriteOrder ==
    (inflight = {} /\ nrecv >= 2 /\ rejected = 0)
        => store = Stored(lastRecv)

\* C4: no set handler rejects towards the host, and every set-event with
\* value k pulses trigger k, also when its storage write failed.
C4_WriteFailure ==
    /\ rejected = 0
    /\ \A k \in 0..(N - 1) : pulses[k] = done[k] + failed[k]

\* C5: the step that assigns the loaded value to the selector changes no
\* pulse count, leaves the store alone and starts no storage write.
C5_RestoreSilent ==
    [][(pc = "loaded" /\ pc' = "ready")
          => (pulses' = pulses /\ store' = store /\ inflight' = inflight)]_vars

C5_Witness ==
    /\ pc = "ready" /\ nrecv = 0
    /\ value # 0 /\ store = Stored(value)
    /\ \A k \in 0..(N - 1) : pulses[k] = 0

\* C6: a read that finds the entry absent or malformed resolves (to
\* undefined) instead of failing the restore, and the restore of an
\* undefined value sets the selector to 0.
C6_DefaultZero ==
    [][/\ (pc = "reading" /\ pc' = "loaded" /\ store.kind # "int") => ~loaded'.def
       /\ (pc = "loaded" /\ pc' = "ready" /\ ~loaded.def) => value' = 0]_vars

C6_Witness ==
    /\ pc = "ready" /\ nrecv = 0
    /\ store = Corrupt /\ ~loaded.def
    /\ value = 0

\* C7: no failure of the restore sequence is left as an unhandled
\* rejection; a failed restore is logged and, no set-event having been
\* received, leaves the selector at 0.
C7_RestoreFailure ==
    /\ ~unhandled
    /\ pc \in {"dirfail", "readfail"} => (logged /\ (nrecv = 0 => value = 0))

\* C8: every result of getServices has N + 2 entries: the information
\* service, the selector service, then trigger k built from states[k] with
\* label index k + 1, for k = 0 .. N-1.
C8_Services ==
    exported # <<>> =>
        /\ Len(exported) = N + 2
        /\ exported[1] = informationService
        /\ exported[2] = service
        /\ \A k \in 0..(N - 1) :
            /\ exported[k + 3].type = "StatelessProgrammableSwitch"
            /\ exported[k + 3].name = config[k + 1]
            /\ exported[k + 3].label = k + 1

C8_Witness ==
    /\ Len(exported) = MaxStates + 2
    /\ pc = "ready"
    /\ \E k \in 0..(N - 1) : pulses[k] > 0

\* C9: when the only set-event of an instance arrived during the restore
\* and both have finished, the selector is that set-event's value and so is
\* the persisted entry.
C9_Serialized ==
    (pc = "ready" /\ inflight = {} /\ raced /\ nrecv = 1 /\ rejected = 0)
        => (value = lastRecv /\ store = Stored(value))

\* C10: the selector's value is always a valid index into the running
\* instance's states list.
C10_ValidIndex == value \in 0..(N - 1)

====
